---------------------------- MODULE Spec2Model ----------------------------
(***************************************************************************)
(* A model of the two console programs of the repository.                  *)
(*                                                                         *)
(*   calc.cpp  the recursive-descent Parser and the read-evaluate-print    *)
(*             loop of main.  Every call of the parser is one frame of an  *)
(*             explicit call stack; an action is the code that runs        *)
(*             between two calls or returns.                               *)
(*   pong.cpp  the POSIX keyboard layer (kb_hit, kb_getch) and the         *)
(*             discrete input loop of main.                                *)
(*                                                                         *)
(* Text is a sequence of one-character strings.  A double is modelled by   *)
(* the record described at Num below.                                      *)
(***************************************************************************)
EXTENDS Integers, Sequences, FiniteSets, TLC

(***************************************************************************)
(* Bounds of the model.                                                    *)
(***************************************************************************)
\* every text of at most MaxLen characters over Alphabet is an input line
MaxLen == 3
\* whitespace is inserted into every sequence of at most MaxTok tokens
MaxTok == 3
\* the model keeps a rational exactly while numerator and denominator are
\* at most Cap (products of two such numbers stay below 2^31)
Cap == 30000
\* at most MaxKeys keys are pressed during a game
MaxKeys == 3

(***************************************************************************)
(* Characters: isspace and isdigit of <cctype> in the "C" locale.          *)
(***************************************************************************)
Digits == <<"0", "1", "2", "3", "4", "5", "6", "7", "8", "9">>

isdigit(c) == \E i \in 1..10 : Digits[i] = c

DigitVal(c) == (CHOOSE i \in 1..10 : Digits[i] = c) - 1

\* the six characters for which isspace holds, by name where TLA+ has no escape
isspace(c) == c \in {" ", "\t", "\n", "\r", "FF", "VT"}

\* '\0', which peek returns at the end of the text
NUL == "NUL"

(***************************************************************************)
(* Values.  A double is                                                    *)
(*   [k |-> "num", n, d, x]  the rational n/d in lowest terms, d > 0,      *)
(*                           |n| <= Cap, d <= Cap; x says that the double  *)
(*                           equals n/d exactly, otherwise the double is   *)
(*                           n/d up to rounding errors;                    *)
(*   [k |-> "huge", n |-> s] a finite double of sign s and magnitude at    *)
(*                           least 2^63 (a literal such as 1e19);          *)
(*   [k |-> "top"]           any double whatsoever: a value the model does *)
(*                           not follow (out of Cap, infinite, NaN).       *)
(***************************************************************************)
Num(n, d, x) == [k |-> "num", n |-> n, d |-> d, x |-> x]

Huge(s) == [k |-> "huge", n |-> s, d |-> 1, x |-> TRUE]

Top == [k |-> "top", n |-> 0, d |-> 1, x |-> FALSE]

IntVal(i) == Num(i, 1, TRUE)

Abs(i) == IF i < 0 THEN -i ELSE i

Sign(i) == IF i < 0 THEN -1 ELSE IF i = 0 THEN 0 ELSE 1

RECURSIVE GCD(_, _)
GCD(a, b) == IF b = 0 THEN a ELSE GCD(b, a % b)

RECURSIVE IsPow2(_)
IsPow2(d) == d = 1 \/ (d % 2 = 0 /\ IsPow2(d \div 2))

\* n/d (d # 0, |n| and |d| below 2^31) as a value; x: the operands were exact
Rat(n, d, x) ==
    LET s == IF d < 0 THEN -1 ELSE 1
        g == GCD(Abs(n), Abs(d))
        nn == (s * n) \div g
        dd == (s * d) \div g
    IN  IF n = 0 THEN Num(0, 1, TRUE)
        ELSE IF Abs(nn) > Cap \/ dd > Cap THEN Top
        ELSE Num(nn, dd, x /\ IsPow2(dd))

IsNum(v) == v.k = "num"

Neg(v) ==
    CASE v.k = "num" -> Num(-v.n, v.d, v.x)
      [] v.k = "huge" -> Huge(-v.n)
      [] OTHER -> Top

\* a + b and a - b of doubles; a sum that cancels to 0 with a rounded
\* operand is some tiny double the model does not follow
AddSub(a, b, sgn) ==
    IF ~(IsNum(a) /\ IsNum(b)) THEN Top
    ELSE LET n == a.n * b.d + sgn * b.n * a.d
         IN  IF n = 0 /\ ~(a.x /\ b.x) THEN Top
             ELSE Rat(n, a.d * b.d, a.x /\ b.x)

Add(a, b) == AddSub(a, b, 1)

Sub(a, b) == AddSub(a, b, -1)

Mul(a, b) ==
    IF ~(IsNum(a) /\ IsNum(b)) THEN Top
    ELSE Rat(a.n * b.n, a.d * b.d, a.x /\ b.x)

\* a / b for a divisor that is not zero
Div(a, b) ==
    IF ~(IsNum(a) /\ IsNum(b)) \/ b.n = 0 THEN Top
    ELSE Rat(a.n * b.d, a.d * b.n, a.x /\ b.x)

\* acc * b^e for a natural number e, by repeated multiplication
RECURSIVE PowNat(_, _, _)
PowNat(acc, b, e) ==
    IF e = 0 \/ ~IsNum(acc) \/ acc.n = 0 THEN acc
    ELSE IF b.d = 1 /\ b.n = -1 THEN (IF e % 2 = 0 THEN acc ELSE Neg(acc))
    ELSE PowNat(Mul(acc, b), b, e - 1)

\* pow of <cmath>
pow(base, exp) ==
    CASE IsNum(exp) /\ exp.n = 0 -> IntVal(1)
      [] IsNum(base) /\ base.n = base.d /\ base.x -> IntVal(1)
      [] IsNum(base) /\ IsNum(exp) /\ exp.d = 1 /\ exp.n > 0
           /\ (exp.x \/ base.n >= 0) -> PowNat(IntVal(1), base, exp.n)
      [] IsNum(base) /\ IsNum(exp) /\ exp.d = 1 /\ exp.n < 0 /\ base.n # 0
           /\ (exp.x \/ base.n > 0) -> Div(IntVal(1), PowNat(IntVal(1), base, -exp.n))
      [] OTHER -> Top

(***************************************************************************)
(* std::stod on the text parseNumber hands it: digits, at most one '.',    *)
(* then an exponent suffix.  strtod converts the longest prefix that is a  *)
(* number; stod throws invalid_argument when there is none and             *)
(* out_of_range when strtod reports ERANGE (overflow, or a result below    *)
(* the smallest normal double).                                            *)
(***************************************************************************)
\* the index after the run of digits of s that starts at index i
RECURSIVE DigitsEnd(_, _)
DigitsEnd(s, i) == IF i <= Len(s) /\ isdigit(s[i]) THEN DigitsEnd(s, i + 1) ELSE i

RECURSIVE StripLeft(_)
StripLeft(s) == IF s # <<>> /\ Head(s) = "0" THEN StripLeft(Tail(s)) ELSE s

RECURSIVE StripRight(_)
StripRight(s) ==
    IF s # <<>> /\ s[Len(s)] = "0" THEN StripRight(SubSeq(s, 1, Len(s) - 1)) ELSE s

\* the number a sequence of digits denotes, or lim when it is above lim
RECURSIVE DigitsNat(_, _, _)
DigitsNat(s, acc, lim) ==
    IF s = <<>> THEN acc
    ELSE IF acc * 10 + DigitVal(Head(s)) > lim THEN lim
    ELSE DigitsNat(Tail(s), acc * 10 + DigitVal(Head(s)), lim)

RECURSIVE Pow10(_)
Pow10(p) == IF p = 0 THEN 1 ELSE 10 * Pow10(p - 1)

\* digit sequences a, b as decimal fractions 0.a and 0.b: a < b
RECURSIVE FracLess(_, _)
FracLess(a, b) ==
    IF b = <<>> THEN FALSE
    ELSE IF a = <<>> THEN StripLeft(b) # <<>>
    ELSE IF Head(a) # Head(b) THEN DigitVal(Head(a)) < DigitVal(Head(b))
    ELSE FracLess(Tail(a), Tail(b))

\* the significant digits of DBL_MAX plus half an ulp, and of DBL_MIN
DblMaxDigits == <<"1","7","9","7","6","9","3","1","3","4","8","6","2","3","1","5","8","0","8">>

DblMinDigits == <<"2","2","2","5","0","7","3","8","5","8","5","0","7","2","0","1","4">>

StodVal(v) == [t |-> "val", v |-> v]

StodThrow(what) == [t |-> what, v |-> Top]

stod(s) ==
    LET i1 == DigitsEnd(s, 1)
        hasDot == i1 <= Len(s) /\ s[i1] = "."
        i2 == IF hasDot THEN DigitsEnd(s, i1 + 1) ELSE i1
        int == SubSeq(s, 1, i1 - 1)
        frac == IF hasDot THEN SubSeq(s, i1 + 1, i2 - 1) ELSE <<>>
        hasE == i2 <= Len(s) /\ s[i2] \in {"e", "E"}
        j == IF hasE /\ i2 + 1 <= Len(s) /\ s[i2 + 1] \in {"+", "-"}
             THEN i2 + 2 ELSE i2 + 1
        j2 == IF hasE THEN DigitsEnd(s, j) ELSE j
        expDigits == IF hasE /\ j2 > j THEN SubSeq(s, j, j2 - 1) ELSE <<>>
        E == (IF hasE /\ j > i2 + 1 /\ s[i2 + 1] = "-" THEN -1 ELSE 1)
             * DigitsNat(StripLeft(expDigits), 0, 10000)
        sig == StripLeft(int \o frac)
        M == StripRight(sig)
        \* the value is 0.sig * 10^X1 and M * 10^p
        X1 == Len(sig) + E - Len(frac)
        p == E - Len(frac) + (Len(sig) - Len(M))
    IN  IF int = <<>> /\ frac = <<>> THEN StodThrow("invalid_argument")
        ELSE IF sig = <<>> THEN StodVal(IntVal(0))
        ELSE IF X1 > 309 \/ (X1 = 309 /\ ~FracLess(sig, DblMaxDigits))
             THEN StodThrow("out_of_range")
        ELSE IF X1 < -307 \/ (X1 = -307 /\ FracLess(sig, DblMinDigits))
             THEN StodThrow("out_of_range")
        ELSE IF Len(M) <= 5 /\ p >= 0 /\ p <= 4
             THEN StodVal(Rat(DigitsNat(M, 0, 99999) * Pow10(p), 1, TRUE))
        ELSE IF Len(M) <= 5 /\ p < 0 /\ p >= -9
             THEN StodVal(Rat(DigitsNat(M, 0, 99999), Pow10(-p), TRUE))
        ELSE IF X1 >= 20 THEN StodVal(Huge(1))
        ELSE StodVal(Top)

(***************************************************************************)
(* static_cast<long long>(double).  A long long in the model is            *)
(*   [t |-> "int", i]  the integer i;                                      *)
(*   [t |-> "min"], [t |-> "max"]  LLONG_MIN and LLONG_MAX;                *)
(*   [t |-> "any"]     a long long the model does not follow.              *)
(* The cast truncates toward zero.  Its behaviour is undefined when the    *)
(* truncated value is no long long: the x86-64 build then yields           *)
(* LLONG_MIN, the AArch64 build saturates.  CastSet is the set of results  *)
(* the cast can have.                                                      *)
(***************************************************************************)
LL(i) == [t |-> "int", i |-> i]

LLMin == [t |-> "min", i |-> 0]

LLMax == [t |-> "max", i |-> 0]

LLAny == [t |-> "any", i |-> 0]

\* n/d rounded to the nearest integer, as std::llround would
TruncRound(v) ==
    IF v.n >= 0 THEN (2 * v.n + v.d) \div (2 * v.d)
    ELSE -((2 * (-v.n) + v.d) \div (2 * v.d))

\* n/d truncated toward zero
Trunc(v) == IF v.n >= 0 THEN v.n \div v.d ELSE -((-v.n) \div v.d)

CastSet(v) ==
    CASE v.k = "num" /\ (v.x \/ v.d # 1) -> {LL(Trunc(v))}
      [] v.k = "num" /\ ~v.x /\ v.d = 1 -> {LL(v.n), LL(v.n - Sign(v.n))}
      [] v.k = "huge" -> {LLMin, IF v.n > 0 THEN LLMax ELSE LLMin}
      [] OTHER -> {LLAny}

\* a % b of two long long: the remainder has the sign of the dividend
CRem(a, b) == IF a >= 0 THEN a % Abs(b) ELSE -((-a) % Abs(b))

ModValue(v) == [t |-> "val", v |-> v]

ModZero == [t |-> "zero", v |-> Top]

\* SIGFPE: the x86-64 idiv traps on LLONG_MIN % -1
ModTrap == [t |-> "trap", v |-> Top]

\* what lines 79-80 can do for long long a and b: throw "Modulo by zero",
\* yield static_cast<double>(a % b), or trap (a % b is undefined for
\* LLONG_MIN % -1)
ModSet(a, b) ==
    CASE b.t = "int" /\ b.i = 0 -> {ModZero}
      [] b.t = "int" /\ b.i = -1 /\ a.t \in {"min", "any"} ->
            {ModValue(IntVal(0)), ModTrap}
      [] b.t = "int" /\ b.i # 0 /\ a.t = "int" -> {ModValue(IntVal(CRem(a.i, b.i)))}
      [] b.t \in {"min", "max"} /\ a.t = "int" -> {ModValue(IntVal(a.i))}
      [] b.t = "any" /\ a.t \in {"min", "any"} -> {ModZero, ModValue(Top), ModTrap}
      [] b.t = "any" -> {ModZero, ModValue(Top)}
      [] OTHER -> {ModValue(Top)}

\* the outcomes of val % rhs in parseTerm (lines 77-80)
Modulo(val, rhs) ==
    UNION {ModSet(a, b) : <<a, b>> \in CastSet(val) \X CastSet(rhs)}

\* the truth values d == 0 can have (line 73)
IsZeroSet(d) ==
    CASE d.k = "num" -> {d.n = 0}
      [] d.k = "huge" -> {FALSE}
      [] OTHER -> {TRUE, FALSE}

(***************************************************************************)
(* calc.cpp: the state of main and of the Parser it constructs.            *)
(***************************************************************************)
VARIABLES
    lines,  \* the lines std::cin still holds
    mpc,    \* where main is: "getline", "eval" (inside p.parse()), "exit"
            \* (after the loop) or "killed" (the process died of a signal)
    out,    \* what main has printed: one record per evaluated line
    expr,   \* Parser::expr
    pos,    \* Parser::pos
    stack,  \* the frames of the parser's calls, the innermost one last
    ret     \* the value the last call returned

calcVars == <<lines, mpc, out, expr, pos, stack, ret>>

(***************************************************************************)
(* pong.cpp, POSIX build: the state of main and of the keyboard.           *)
(***************************************************************************)
VARIABLES
    stdinQ,    \* the bytes the terminal holds for read(STDIN_FILENO, ...)
    pushback,  \* the bytes ungetc has put into the buffer of the FILE stdin
    typed,     \* how many keys have been pressed
    ppc,       \* where main is: "kb_hit", "kb_getch", "update" or "exited"
    ch,        \* main's ch
    scoreL, scoreR, gameOver,
    leftY, rightY  \* left.y and right.y

pongVars == <<stdinQ, pushback, typed, ppc, ch, scoreL, scoreR, gameOver, leftY, rightY>>

vars == <<lines, mpc, out, expr, pos, stack, ret,
          stdinQ, pushback, typed, ppc, ch, scoreL, scoreR, gameOver, leftY, rightY>>

\* expr[p] of the code (its offsets start at 0)
At(e, p) == e[p + 1]

\* skipSpaces skipping nothing
skipSpacesNone(e, p) == p

\* Parser::skipSpaces: the offset it leaves pos at
RECURSIVE skipSpaces(_, _)
skipSpaces(e, p) ==
    IF p < Len(e) /\ isspace(At(e, p)) THEN skipSpaces(e, p + 1) ELSE p

MatchResult(ok, p) == [ok |-> ok, pos |-> p]

\* Parser::match: the result and the offset it leaves pos at
match(e, p, c) ==
    LET q == skipSpaces(e, p)
    IN  IF q < Len(e) /\ At(e, q) = c THEN MatchResult(TRUE, q + 1)
        ELSE MatchResult(FALSE, q)

\* the i at which the loop of matchStr stops
RECURSIVE matchStrScan(_, _, _, _)
matchStrScan(e, start, s, i) ==
    IF i < Len(s) /\ start + i < Len(e) /\ At(e, start + i) = At(s, i)
    THEN matchStrScan(e, start, s, i + 1) ELSE i

\* matchStr leaving the cursor behind the characters of s it has matched
matchStrPartial(e, p, s) ==
    LET start == skipSpaces(e, p)
        i == matchStrScan(e, start, s, 0)
    IN  IF i = Len(s) THEN MatchResult(TRUE, start + i)
        ELSE MatchResult(FALSE, start + i)

\* Parser::matchStr
matchStr(e, p, s) ==
    LET start == skipSpaces(e, p)
        i == matchStrScan(e, start, s, 0)
    IN  IF i = Len(s) THEN MatchResult(TRUE, start + i)
        ELSE MatchResult(FALSE, start)

\* Parser::peek: the character and the offset it leaves pos at
peek(e, p) ==
    LET q == skipSpaces(e, p)
    IN  [c |-> IF q < Len(e) THEN At(e, q) ELSE NUL, pos |-> q]

\* nextStartsFactor taking a sign for the start of a factor as well
nextStartsFactorSigned(e, p) ==
    LET c == peek(e, p).c
    IN  MatchResult(c = "(" \/ isdigit(c) \/ c = "." \/ c = "-", peek(e, p).pos)

\* Parser::nextStartsFactor
nextStartsFactor(e, p) ==
    LET c == peek(e, p).c
    IN  MatchResult(c = "(" \/ isdigit(c) \/ c = ".", peek(e, p).pos)

\* a frame: the function, where it is, and its locals (val, base or v in
\* val; start, save and seenDigit of parseNumber)
Frame(fn) == [fn |-> fn, pc |-> "start", val |-> Top,
              start |-> 0, save |-> 0, seenDigit |-> FALSE]

Cur == stack[Len(stack)]

In(fn, pc) == mpc = "eval" /\ stack # <<>> /\ Cur.fn = fn /\ Cur.pc = pc

\* the stack after the innermost frame became f
SetCur(f) == [stack EXCEPT ![Len(stack)] = f]

\* the innermost function calls fn, and is at pc when fn returns
Call(fn, f) == stack' = Append(SetCur(f), Frame(fn))

\* the innermost function returns v
Return(v) == /\ stack' = SubSeq(stack, 1, Len(stack) - 1)
             /\ ret' = v

\* the 'at' of a message that names no offset
NoPos == 0 - 1

Result(v) == [kind |-> "Result", what |-> "", at |-> NoPos, v |-> v]

Error(what, at) == [kind |-> "Error", what |-> what, at |-> at, v |-> Top]

\* an exception leaves every frame and reaches the catch of main (lines
\* 160-162), which prints e.what() and goes on with the next line
Throw(what, at) == /\ stack' = <<>>
                   /\ out' = Append(out, Error(what, at))
                   /\ mpc' = "getline"
                   /\ UNCHANGED <<lines, expr, ret>>

(***************************************************************************)
(* main of calc.cpp (lines 151-163): read a line, leave on end of input    *)
(* and on q or Q, otherwise construct a Parser on the line and call parse. *)
(***************************************************************************)
MainGetline ==
    /\ UNCHANGED pongVars
    /\ mpc = "getline"
    /\ IF lines = <<>> \/ Head(lines) \in {<<"q">>, <<"Q">>}
       THEN /\ mpc' = "exit"
            /\ lines' = IF lines = <<>> THEN lines ELSE Tail(lines)
            /\ UNCHANGED <<out, expr, pos, stack, ret>>
       ELSE /\ mpc' = "eval"
            /\ lines' = Tail(lines)
            /\ expr' = Head(lines)
            /\ pos' = 0
            /\ stack' = <<Frame("parse")>>
            /\ UNCHANGED <<out, ret>>

\* Parser::parse, line 15: call parseExpression
parse ==
    /\ UNCHANGED pongVars
    /\ In("parse", "start")
    /\ Call("parseExpression", [Cur EXCEPT !.pc = "v"])
    /\ UNCHANGED <<lines, mpc, out, expr, pos, ret>>

\* parse without the check of lines 17-19: what is left of the text is ignored
parseEndNoCheck ==
    /\ UNCHANGED pongVars
    /\ In("parse", "v")
    /\ pos' = skipSpaces(expr, pos)
    /\ stack' = <<>>
    /\ out' = Append(out, Result(ret))
    /\ mpc' = "getline"
    /\ UNCHANGED <<lines, expr, ret>>

\* Parser::parse, lines 15-20, and lines 158-159 of main: the result is
\* printed, or the trailing input reported
parseEnd ==
    /\ UNCHANGED pongVars
    /\ In("parse", "v")
    /\ pos' = skipSpaces(expr, pos)
    /\ IF pos' # Len(expr)
       THEN Throw("Unexpected trailing input", pos')
       ELSE /\ stack' = <<>>
            /\ out' = Append(out, Result(ret))
            /\ mpc' = "getline"
            /\ UNCHANGED <<lines, expr, ret>>

\* Parser::parseExpression, line 55: call parseTerm
parseExpression ==
    /\ UNCHANGED pongVars
    /\ In("parseExpression", "start")
    /\ Call("parseTerm", [Cur EXCEPT !.pc = "val"])
    /\ UNCHANGED <<lines, mpc, out, expr, pos, ret>>

\* Parser::parseExpression, lines 55-61: a term has returned; fold it into
\* val, then match the next '+' or '-' and call parseTerm, or return val
parseExpressionLoop ==
    /\ UNCHANGED pongVars
    /\ mpc = "eval" /\ stack # <<>> /\ Cur.fn = "parseExpression"
    /\ Cur.pc \in {"val", "+", "-"}
    /\ LET val == CASE Cur.pc = "val" -> ret
                    [] Cur.pc = "+" -> Add(Cur.val, ret)
                    [] Cur.pc = "-" -> Sub(Cur.val, ret)
           plus == match(expr, pos, "+")
           minus == match(expr, plus.pos, "-")
       IN  IF plus.ok
           THEN /\ pos' = plus.pos
                /\ Call("parseTerm", [Cur EXCEPT !.pc = "+", !.val = val])
                /\ UNCHANGED ret
           ELSE IF minus.ok
           THEN /\ pos' = minus.pos
                /\ Call("parseTerm", [Cur EXCEPT !.pc = "-", !.val = val])
                /\ UNCHANGED ret
           ELSE /\ pos' = minus.pos
                /\ Return(val)
    /\ UNCHANGED <<lines, mpc, out, expr>>

\* Parser::parseTerm, line 67: call parsePower
parseTerm ==
    /\ UNCHANGED pongVars
    /\ In("parseTerm", "start")
    /\ Call("parsePower", [Cur EXCEPT !.pc = "val"])
    /\ UNCHANGED <<lines, mpc, out, expr, pos, ret>>

\* the loop head of parseTerm (lines 68-86) with val computed: match an
\* operator or see the start of a factor and call parsePower, or return
parseTermNext(val) ==
    LET mul == match(expr, pos, "*")
        div == match(expr, mul.pos, "/")
        mod == match(expr, div.pos, "%")
        imp == nextStartsFactor(expr, mod.pos)
        op == CASE mul.ok -> "*" [] div.ok -> "/" [] mod.ok -> "%"
                [] imp.ok -> "implicit" [] OTHER -> "break"
    IN  /\ pos' = CASE mul.ok -> mul.pos [] div.ok -> div.pos
                     [] mod.ok -> mod.pos [] OTHER -> imp.pos
        /\ IF op = "break" THEN Return(val)
           ELSE /\ Call("parsePower", [Cur EXCEPT !.pc = op, !.val = val])
                /\ UNCHANGED ret
        /\ UNCHANGED <<lines, mpc, out, expr>>

\* Parser::parseTerm, lines 67-88: a power has returned; apply the pending
\* operator to val (or throw), then go round the loop
parseTermLoop ==
    /\ UNCHANGED pongVars
    /\ mpc = "eval" /\ stack # <<>> /\ Cur.fn = "parseTerm"
    /\ Cur.pc \in {"val", "*", "/", "%", "implicit"}
    /\ CASE Cur.pc = "val" -> parseTermNext(ret)
         [] Cur.pc \in {"*", "implicit"} -> parseTermNext(Mul(Cur.val, ret))
         [] Cur.pc = "/" ->
              \E zero \in IsZeroSet(ret) :
                 IF zero THEN Throw("Division by zero", NoPos) /\ UNCHANGED pos
                 ELSE parseTermNext(Div(Cur.val, ret))
         [] Cur.pc = "%" ->
              \E m \in Modulo(Cur.val, ret) :
                 CASE m.t = "zero" -> Throw("Modulo by zero", NoPos) /\ UNCHANGED pos
                   [] m.t = "trap" -> /\ mpc' = "killed"
                                      /\ UNCHANGED <<lines, out, expr, pos, stack, ret>>
                   [] OTHER -> parseTermNext(m.v)

\* Parser::parsePower, line 94: call parseFactor
parsePower ==
    /\ UNCHANGED pongVars
    /\ In("parsePower", "start")
    /\ Call("parseFactor", [Cur EXCEPT !.pc = "base"])
    /\ UNCHANGED <<lines, mpc, out, expr, pos, ret>>

\* parsePowerExp with a factor for its exponent, as in a grammar whose '^'
\* does not nest to the right
parsePowerExpFactor ==
    /\ UNCHANGED pongVars
    /\ In("parsePower", "base")
    /\ LET stars == matchStr(expr, pos, <<"*", "*">>)
           caret == match(expr, stars.pos, "^")
       IN  IF stars.ok \/ caret.ok
           THEN /\ pos' = IF stars.ok THEN stars.pos ELSE caret.pos
                /\ Call("parseFactor", [Cur EXCEPT !.pc = "exp", !.val = ret])
                /\ UNCHANGED ret
           ELSE /\ pos' = caret.pos
                /\ Return(ret)
    /\ UNCHANGED <<lines, mpc, out, expr>>

\* Parser::parsePower, lines 94-99: the base has returned; on "**" or '^'
\* call parsePower for the exponent, otherwise return the base
parsePowerExp ==
    /\ UNCHANGED pongVars
    /\ In("parsePower", "base")
    /\ LET stars == matchStr(expr, pos, <<"*", "*">>)
           caret == match(expr, stars.pos, "^")
       IN  IF stars.ok \/ caret.ok
           THEN /\ pos' = IF stars.ok THEN stars.pos ELSE caret.pos
                /\ Call("parsePower", [Cur EXCEPT !.pc = "exp", !.val = ret])
                /\ UNCHANGED ret
           ELSE /\ pos' = caret.pos
                /\ Return(ret)
    /\ UNCHANGED <<lines, mpc, out, expr>>

\* Parser::parsePower, lines 96-99: the exponent has returned
parsePowerEnd ==
    /\ UNCHANGED pongVars
    /\ In("parsePower", "exp")
    /\ Return(pow(Cur.val, ret))
    /\ UNCHANGED <<lines, mpc, out, expr, pos>>

\* Parser::parseFactor, lines 104-112: a sign calls parseFactor, '(' calls
\* parseExpression, anything else calls parseNumber
parseFactor ==
    /\ UNCHANGED pongVars
    /\ In("parseFactor", "start")
    /\ LET plus == match(expr, skipSpaces(expr, pos), "+")
           minus == match(expr, plus.pos, "-")
           paren == match(expr, minus.pos, "(")
       IN  /\ pos' = CASE plus.ok -> plus.pos [] minus.ok -> minus.pos
                        [] OTHER -> paren.pos
           /\ CASE plus.ok -> Call("parseFactor", [Cur EXCEPT !.pc = "+"])
                [] minus.ok -> Call("parseFactor", [Cur EXCEPT !.pc = "-"])
                [] paren.ok -> Call("parseExpression", [Cur EXCEPT !.pc = "("])
                [] OTHER -> Call("parseNumber", [Cur EXCEPT !.pc = "number"])
    /\ UNCHANGED <<lines, mpc, out, expr, ret>>

\* Parser::parseFactor, lines 105-112: the call has returned; negate after
\* '-', match the ')' after '(' or throw
parseFactorEnd ==
    /\ UNCHANGED pongVars
    /\ mpc = "eval" /\ stack # <<>> /\ Cur.fn = "parseFactor"
    /\ Cur.pc \in {"+", "-", "(", "number"}
    /\ CASE Cur.pc = "-" -> Return(Neg(ret)) /\ UNCHANGED <<lines, mpc, out, expr, pos>>
         [] Cur.pc = "(" ->
              LET close == match(expr, pos, ")")
              IN  /\ pos' = close.pos
                  /\ IF close.ok THEN Return(ret) /\ UNCHANGED <<lines, mpc, out, expr>>
                     ELSE Throw("Missing ')'", NoPos)
         [] OTHER -> Return(ret) /\ UNCHANGED <<lines, mpc, out, expr, pos>>

\* the offset at which the loop of lines 121-126 leaves pos
RECURSIVE MantissaEnd(_, _, _)
MantissaEnd(e, p, seenDot) ==
    IF p < Len(e) /\ isdigit(At(e, p)) THEN MantissaEnd(e, p + 1, seenDot)
    ELSE IF p < Len(e) /\ At(e, p) = "." /\ ~seenDot THEN MantissaEnd(e, p + 1, TRUE)
    ELSE p

\* Parser::parseNumber, lines 116-126: the mantissa
parseNumber ==
    /\ UNCHANGED pongVars
    /\ In("parseNumber", "start")
    /\ LET start == skipSpaces(expr, pos)
           end == MantissaEnd(expr, start, FALSE)
           seenDigit == \E p \in start..(end - 1) : isdigit(At(expr, p))
       IN  /\ pos' = end
           /\ stack' = SetCur([Cur EXCEPT !.pc = "mantissa", !.start = start,
                                          !.seenDigit = seenDigit])
    /\ UNCHANGED <<lines, mpc, out, expr, ret>>

\* Parser::parseNumber, lines 128-134: pass an 'e' or 'E', a sign and the
\* digits of an exponent; save is where the 'e' was
parseNumberExp ==
    /\ UNCHANGED pongVars
    /\ In("parseNumber", "mantissa")
    /\ IF pos < Len(expr) /\ At(expr, pos) \in {"e", "E"}
       THEN LET afterSign == IF pos + 1 < Len(expr) /\ At(expr, pos + 1) \in {"+", "-"}
                             THEN pos + 2 ELSE pos + 1
                end == DigitsEnd(expr, afterSign + 1) - 1
                expDigits == end > afterSign
            IN  /\ pos' = end
                /\ stack' = SetCur([Cur EXCEPT !.save = pos,
                         !.pc = IF expDigits THEN "check" ELSE "rollback"])
       ELSE /\ pos' = pos
            /\ stack' = SetCur([Cur EXCEPT !.pc = "check"])
    /\ UNCHANGED <<lines, mpc, out, expr, ret>>

\* line 135 without the assignment: the cursor stays behind the 'e'
parseNumberNoRollback ==
    /\ UNCHANGED pongVars
    /\ In("parseNumber", "rollback")
    /\ pos' = pos
    /\ stack' = SetCur([Cur EXCEPT !.pc = "check"])
    /\ UNCHANGED <<lines, mpc, out, expr, ret>>

\* Parser::parseNumber, line 135: no digit followed the 'e'
parseNumberRollback ==
    /\ UNCHANGED pongVars
    /\ In("parseNumber", "rollback")
    /\ pos' = Cur.save
    /\ stack' = SetCur([Cur EXCEPT !.pc = "check"])
    /\ UNCHANGED <<lines, mpc, out, expr, ret>>

\* Parser::parseNumber, lines 138-141: throw, or convert the text with stod
parseNumberEnd ==
    /\ UNCHANGED pongVars
    /\ In("parseNumber", "check")
    /\ LET r == stod(SubSeq(expr, Cur.start + 1, pos))
       IN  IF ~Cur.seenDigit /\ ~(pos > Cur.start)
           THEN Throw("Expected number", pos)
           ELSE IF r.t = "val"
           THEN Return(r.v) /\ UNCHANGED <<lines, mpc, out, expr>>
           ELSE Throw(r.t, NoPos)
    /\ UNCHANGED pos

(***************************************************************************)
(* The input lines.  std::cin holds                                        *)
(*   - any text of at most MaxLen characters over Alphabet,                *)
(*   - an expression the specification of the evaluator names,             *)
(*   - an expression of two operators over Operands (Templates), or        *)
(*   - two lines: a sequence of at most MaxTok tokens, written once        *)
(*     without whitespace and once with whitespace between its tokens.     *)
(***************************************************************************)
Alphabet == {"0", "1", "2", "+", "-", "*", "/", "%", "^", "(", ")", ".", "e", " "}

Texts == UNION {[1..k -> Alphabet] : k \in 0..MaxLen}

Examples ==
    { <<"2", "+", "3", "*", "4">>,
      <<"(", "2", "+", "3", ")", "*", "4">>,
      <<"2", "^", "3", "^", "2">>,
      <<"-", "2", "^", "2">>,
      <<"-", "-", "3">>,
      <<"2", "*", "*", "3", "*", "*", "2">>,
      <<"2", "(", "3", "+", "4", ")">>,
      <<"(", "1", "+", "2", ")", "(", "3", "+", "4", ")">>,
      <<"3", ".", "5", "(", "2", ")">>,
      <<"3", " ", "4">>,
      <<"2", " ", "-", "3">>,
      <<"5", "%", "3">>,
      <<"5", ".", "9", " ", "%", " ", "3", ".", "1">>,
      <<"5", " ", "%", " ", "0", ".", "5">>,
      <<"1", "/", "0">>,
      <<"5", "%", "0">>,
      <<"(", "1", "+", "2">>,
      <<"3", " ", "+", " ">>,
      <<"1", "e">>,
      <<"1", "E", "+">>,
      <<".">>,
      <<"e", "5">>,
      <<" ", "1", " ", "+", " ", "2", " ">>,
      <<"1", "\t", "+", "\t", "2">>,
      <<"1", "e", "3", "0", "9">>,
      <<"1", "e", "1", "9", "%", "-", "1">>,
      <<"q">>,
      <<"Q">> }

Operands == {"2", "3"}

Operators == {"+", "-", "*", "/", "%", "^", "**", "implicit"}

\* an operator as it is written; a space stands for the implicit product
OpText(op) ==
    CASE op = "**" -> <<"*", "*">>
      [] op = "implicit" -> <<" ">>
      [] OTHER -> <<op>>

Templates ==
    [form : {"a.b.c", "(a.b).c", "a.(b.c)", "-a.b"},
     a : Operands, op1 : Operators, b : Operands, op2 : Operators, c : Operands]

TemplateText(t) ==
    CASE t.form = "a.b.c" -> <<t.a>> \o OpText(t.op1) \o <<t.b>> \o OpText(t.op2) \o <<t.c>>
      [] t.form = "(a.b).c" ->
           <<"(", t.a>> \o OpText(t.op1) \o <<t.b, ")">> \o OpText(t.op2) \o <<t.c>>
      [] t.form = "a.(b.c)" ->
           <<t.a>> \o OpText(t.op1) \o <<"(", t.b>> \o OpText(t.op2) \o <<t.c, ")">>
      [] t.form = "-a.b" -> <<"-", t.a>> \o OpText(t.op1) \o <<t.b>>

Tokens == {<<"2">>, <<"1", "e", "1">>, <<"+">>, <<"-">>, <<"*">>, <<"/">>, <<"%">>,
           <<"*", "*">>, <<"(">>, <<")">>}

\* the sequences of at most n tokens
TokenSeqs(n) == UNION {[1..k -> Tokens] : k \in 0..n}

IsNumberToken(t) == isdigit(t[1]) \/ t[1] = "."

\* written without whitespace, t1 t2 would read as other tokens: two
\* numbers run together, and "*" before "*" or "**" reads as "**"
RunTogether(t1, t2) ==
    \/ IsNumberToken(t1) /\ IsNumberToken(t2)
    \/ t1 = <<"*">> /\ t2[1] = "*"

Separable(ts) == \A i \in 1..(Len(ts) - 1) : ~RunTogether(ts[i], ts[i + 1])

\* the tokens ts with the text w in the gaps G; gap i is after token i,
\* gap 0 before the first token
RECURSIVE Spaced(_, _, _, _)
Spaced(ts, G, w, i) ==
    IF i > Len(ts) THEN <<>>
    ELSE ts[i] \o (IF i \in G THEN w ELSE <<>>) \o Spaced(ts, G, w, i + 1)

WithSpace(ts, G, w) == (IF 0 \in G THEN w ELSE <<>>) \o Spaced(ts, G, w, 1)

\* the whitespace put into ts: a space in one gap, or "\t " in every gap
SpaceChoices(ts) ==
    {<<{g}, <<" ">>>> : g \in 0..Len(ts)} \cup {<<0..Len(ts), <<"\t", " ">>>>}

SingleLines == {<<l>> : l \in Texts \cup Examples \cup {TemplateText(t) : t \in Templates}}

\* a sequence of at most n tokens, without whitespace and with
SpacedLines(n) ==
    UNION {{<<WithSpace(ts, {}, <<>>), WithSpace(ts, c[1], c[2])>> : c \in SpaceChoices(ts)} :
              ts \in {ts \in TokenSeqs(n) : Separable(ts)}}

\* main of calc.cpp starts with the lines L on std::cin (lines 150-151)
CalcInit(L) ==
    /\ lines \in L
    /\ mpc = "getline"
    /\ out = <<>>
    /\ expr = <<>>
    /\ pos = 0
    /\ stack = <<>>
    /\ ret = Top

CalcNext ==
    \/ MainGetline
    \/ parse
    \/ parseEnd
    \/ parseExpression
    \/ parseExpressionLoop
    \/ parseTerm
    \/ parseTermLoop
    \/ parsePower
    \/ parsePowerExp
    \/ parsePowerEnd
    \/ parseFactor
    \/ parseFactorEnd
    \/ parseNumber
    \/ parseNumberExp
    \/ parseNumberRollback
    \/ parseNumberEnd

(***************************************************************************)
(* pong.cpp, POSIX build (lines 74-87 and 171-309).  The ball's flight     *)
(* (floating point, the clock and rand) is not followed: a frame may or    *)
(* may not score a point.                                                  *)
(***************************************************************************)
HEIGHT == 24
PADDLE_H == 4
WIN_SCORE == 11

\* what kb_getch returns when read fails: -1
NoByte == "none"

\* the bytes a key sends; an arrow key sends ESC [ A or ESC [ B
Keys == {"q", "r", "w", "s", "Up", "Down"}

KeyBytes(k) ==
    CASE k = "Up" -> <<"ESC", "[", "A">>
      [] k = "Down" -> <<"ESC", "[", "B">>
      [] OTHER -> <<k>>

\* the user presses a key: the terminal queues its bytes
KeyPress ==
    /\ ppc # "exited"
    /\ typed < MaxKeys
    /\ \E k \in Keys : stdinQ' = stdinQ \o KeyBytes(k)
    /\ typed' = typed + 1
    /\ UNCHANGED <<pushback, ppc, ch, scoreL, scoreR, gameOver, leftY, rightY>>
    /\ UNCHANGED calcVars

\* main, lines 190-198: the top of the loop
Frame198 ==
    /\ ppc = "frame"
    /\ ch' = NoByte
    /\ ppc' = "kb_hit"
    /\ UNCHANGED <<stdinQ, pushback, typed, scoreL, scoreR, gameOver, leftY, rightY>>
    /\ UNCHANGED calcVars

\* kb_hit (lines 74-81) as the condition of the loop of line 199: read one
\* byte from the descriptor and ungetc it into the FILE stdin
kb_hit ==
    /\ ppc = "kb_hit"
    /\ IF stdinQ # <<>>
       THEN /\ stdinQ' = Tail(stdinQ)
            /\ pushback' = Append(pushback, Head(stdinQ))
            /\ ppc' = "kb_getch"
       ELSE /\ ppc' = "update"
            /\ UNCHANGED <<stdinQ, pushback>>
    /\ UNCHANGED <<typed, ch, scoreL, scoreR, gameOver, leftY, rightY>>
    /\ UNCHANGED calcVars

\* kb_getch (lines 83-87): the byte read from the descriptor q, or -1
ReadByte(q) == IF q = <<>> THEN NoByte ELSE Head(q)

AfterRead(q) == IF q = <<>> THEN q ELSE Tail(q)

\* clamp_paddle (lines 134-136)
clamp_paddle(y) ==
    LET lo == 1
        hi == HEIGHT - 2 - PADDLE_H
        m == IF y < hi THEN y ELSE hi
    IN  IF m > lo THEN m ELSE lo

PaddleStart == (HEIGHT - PADDLE_H) \div 2

\* main, lines 200-231: the body of the input loop
kb_getch ==
    /\ ppc = "kb_getch"
    /\ LET c0 == ReadByte(stdinQ)
           q1 == AfterRead(stdinQ)
           esc == c0 = "ESC"
           c1 == ReadByte(q1)
           q2 == AfterRead(q1)
           c2 == ReadByte(q2)
           q3 == AfterRead(q2)
           reset == c0 \in {"r", "R"}
           key == IF esc /\ c1 = "[" /\ c2 = "A" THEN "Up"
                  ELSE IF esc /\ c1 = "[" /\ c2 = "B" THEN "Down"
                  ELSE c0
           l0 == IF reset THEN PaddleStart ELSE leftY
           r0 == IF reset THEN PaddleStart ELSE rightY
       IN  IF c0 \in {"q", "Q"}
           THEN /\ ppc' = "exited"
                /\ ch' = c0
                /\ stdinQ' = q1
                /\ UNCHANGED <<scoreL, scoreR, gameOver, leftY, rightY>>
           ELSE /\ ppc' = "kb_hit"
                /\ ch' = key
                /\ stdinQ' = IF esc THEN q3 ELSE q1
                /\ scoreL' = IF reset THEN 0 ELSE scoreL
                /\ scoreR' = IF reset THEN 0 ELSE scoreR
                /\ gameOver' = IF reset THEN FALSE ELSE gameOver
                /\ leftY' = CASE key \in {"w", "W"} -> l0 - 1
                               [] key \in {"s", "S"} -> l0 + 1
                               [] OTHER -> l0
                /\ rightY' = CASE key = "Up" -> r0 - 1
                                [] key = "Down" -> r0 + 1
                                [] OTHER -> r0
    /\ UNCHANGED <<pushback, typed>>
    /\ UNCHANGED calcVars

\* main, lines 234-308: clamp the paddles, move the ball, count a point
\* when it leaves the field, draw and sleep
update ==
    /\ ppc = "update"
    /\ leftY' = clamp_paddle(leftY)
    /\ rightY' = clamp_paddle(rightY)
    /\ \E point \in {"none", "left", "right"} :
          /\ gameOver => point = "none"
          /\ scoreR' = IF point = "right" THEN scoreR + 1 ELSE scoreR
          /\ scoreL' = IF point = "left" THEN scoreL + 1 ELSE scoreL
          /\ gameOver' = (gameOver \/ scoreR' >= WIN_SCORE \/ scoreL' >= WIN_SCORE)
    /\ ppc' = "frame"
    /\ UNCHANGED <<stdinQ, pushback, typed, ch>>
    /\ UNCHANGED calcVars

PongNext == KeyPress \/ Frame198 \/ kb_hit \/ kb_getch \/ update

\* the other program is not running
CalcIdle ==
    /\ lines = <<>> /\ mpc = "exit" /\ out = <<>> /\ expr = <<>>
    /\ pos = 0 /\ stack = <<>> /\ ret = Top

PongIdle ==
    /\ stdinQ = <<>> /\ pushback = <<>> /\ typed = 0 /\ ppc = "exited"
    /\ ch = NoByte /\ scoreL = 0 /\ scoreR = 0 /\ gameOver = FALSE
    /\ leftY = PaddleStart /\ rightY = PaddleStart

\* main of pong.cpp, lines 176-187
PongInit ==
    /\ stdinQ = <<>> /\ pushback = <<>> /\ typed = 0 /\ ppc = "frame"
    /\ ch = NoByte /\ scoreL = 0 /\ scoreR = 0 /\ gameOver = FALSE
    /\ leftY = PaddleStart /\ rightY = PaddleStart

(***************************************************************************)
(* The specifications: the calculator on one line, the calculator on a     *)
(* line written twice, and the game.                                       *)
(***************************************************************************)
Init == CalcInit(SingleLines) /\ PongIdle

Next == CalcNext

Spec == Init /\ [][Next]_vars

InitSpaced == CalcInit(SpacedLines(MaxTok) \cup {<<l>> : l \in Examples}) /\ PongIdle

SpecSpaced == InitSpaced /\ [][Next]_vars

InitPong == CalcIdle /\ PongInit

SpecPong == InitPong /\ [][PongNext]_vars

(***************************************************************************)
(* What the claims speak of.                                               *)
(***************************************************************************)
\* the line std::cin held has been evaluated and main has left its loop
Evaluated(text) == mpc = "exit" /\ expr = text /\ Len(out) = 1

\* the innermost call throws what at offset at in this step
Throws(what, at) ==
    /\ mpc' = "getline"
    /\ stack' = <<>>
    /\ out' = Append(out, Error(what, at))

\* the offset of the first character at or after p that is no whitespace,
\* Len(e) when there is none
FirstNonSpace(e, p) ==
    CHOOSE k \in p..Len(e) :
       /\ \A j \in p..(k - 1) : isspace(At(e, j))
       /\ k < Len(e) => ~isspace(At(e, k))

\* the character there, NUL at the end of the text
NextChar(e, p) == IF FirstNonSpace(e, p) < Len(e) THEN At(e, FirstNonSpace(e, p)) ELSE NUL

(***************************************************************************)
(* The value the grammar gives an expression of two operators: the binding *)
(* strength of an operator and the side it associates to.                  *)
(***************************************************************************)
Strength(op) ==
    CASE op \in {"+", "-"} -> 1
      [] op \in {"*", "/", "%", "implicit"} -> 2
      [] op \in {"^", "**"} -> 3

Outcome(v) == [ok |-> TRUE, v |-> v, what |-> ""]

Failure(what) == [ok |-> FALSE, v |-> Top, what |-> what]

\* x op y for two values
Apply(op, x, y) ==
    CASE op = "+" -> {Outcome(Add(x, y))}
      [] op = "-" -> {Outcome(Sub(x, y))}
      [] op \in {"*", "implicit"} -> {Outcome(Mul(x, y))}
      [] op = "/" -> {IF z THEN Failure("Division by zero") ELSE Outcome(Div(x, y)) :
                        z \in IsZeroSet(y)}
      [] op = "%" -> {IF m.t = "zero" THEN Failure("Modulo by zero")
                      ELSE IF m.t = "trap" THEN Failure("trap") ELSE Outcome(m.v) :
                        m \in Modulo(x, y)}
      [] op \in {"^", "**"} -> {Outcome(pow(x, y))}

\* X op Y for two sets of outcomes: the left operand is evaluated first,
\* and the first failure is the outcome
ApplyAll(op, X, Y) ==
    UNION {IF ~x.ok THEN {x} ELSE IF ~y.ok THEN {y} ELSE Apply(op, x.v, y.v) :
             <<x, y>> \in X \X Y}

Operand(c) == {Outcome(IntVal(DigitVal(c)))}

Negated(X) == {IF x.ok THEN Outcome(Neg(x.v)) ELSE x : x \in X}

RightFirst(op1, op2) ==
    \/ Strength(op2) > Strength(op1)
    \/ Strength(op1) = 3 /\ Strength(op2) = 3

Expected(t) ==
    CASE t.form = "a.b.c" /\ RightFirst(t.op1, t.op2) ->
           ApplyAll(t.op1, Operand(t.a), ApplyAll(t.op2, Operand(t.b), Operand(t.c)))
      [] t.form = "a.b.c" /\ ~RightFirst(t.op1, t.op2) ->
           ApplyAll(t.op2, ApplyAll(t.op1, Operand(t.a), Operand(t.b)), Operand(t.c))
      [] t.form = "(a.b).c" ->
           ApplyAll(t.op2, ApplyAll(t.op1, Operand(t.a), Operand(t.b)), Operand(t.c))
      [] t.form = "a.(b.c)" ->
           ApplyAll(t.op1, Operand(t.a), ApplyAll(t.op2, Operand(t.b), Operand(t.c)))
      [] t.form = "-a.b" -> ApplyAll(t.op1, Negated(Operand(t.a)), Operand(t.b))

ExpectedTable == {<<TemplateText(t), Expected(t)>> : t \in Templates}

\* what main printed for the line, as an outcome
Printed(o) == IF o.kind = "Result" THEN Outcome(o.v) ELSE Failure(o.what)

\* main has printed the value i for the line text
Yields(text, i) == Evaluated(text) => out[1] = Result(IntVal(i))

(* C1: an expression of two operators over Operands evaluates to the value *)
(* the grammar defines: '+' and '-' bind loosest, '*', '/', '%' and the    *)
(* implicit product tighter, '^' and '**' tightest; operators of equal     *)
(* strength group to the left, exponents to the right; a sign belongs to   *)
(* the base of a power.  2+3*4 = 14, (2+3)*4 = 20, 2^3^2 = 512, -2^2 = 4.  *)
C1_Grammar ==
    /\ mpc = "exit" /\ Len(out) = 1 =>
          \A row \in ExpectedTable : expr = row[1] => Printed(out[1]) \in row[2]
    /\ Yields(<<"2", "+", "3", "*", "4">>, 14)
    /\ Yields(<<"(", "2", "+", "3", ")", "*", "4">>, 20)
    /\ Yields(<<"2", "^", "3", "^", "2">>, 512)
    /\ Yields(<<"-", "2", "^", "2">>, 4)

C1_Witness ==
    /\ Evaluated(<<"2", "^", "3", "^", "2">>)
    /\ out[1] = Result(IntVal(512))

\* the step is one of parseTerm's loop head that goes on evaluating: it
\* neither throws nor dies
TermStep ==
    /\ mpc = "eval" /\ stack # <<>> /\ Cur.fn = "parseTerm"
    /\ Cur.pc \in {"val", "*", "/", "%", "implicit"}
    /\ mpc' = "eval" /\ stack' # <<>>

\* the step calls parsePower for the right operand of op
CallsPowerFor(op) ==
    /\ Len(stack') = Len(stack) + 1
    /\ stack'[Len(stack)].fn = "parseTerm"
    /\ stack'[Len(stack)].pc = op
    /\ stack'[Len(stack')] = Frame("parsePower")

StartsFactor(c) == c \in {"(", ".", "0", "1", "2", "3", "4", "5", "6", "7", "8", "9"}

\* the step is one of parseExpression's loop head
ExprStep ==
    /\ mpc = "eval" /\ stack # <<>> /\ Cur.fn = "parseExpression"
    /\ Cur.pc \in {"val", "+", "-"}

(* C2: in parseTerm, after a power, when the next character that is no     *)
(* whitespace is none of '*', '/', '%', a multiplication by the next power *)
(* is inserted exactly when that character is '(', a digit or '.'; on '+'  *)
(* or '-' parseTerm returns to parseExpression, which consumes the sign as *)
(* its operator; 2(3+4) = 14, (1+2)(3+4) = 21, 3 4 = 12 and 2 -3 = -1.     *)
C2_ImplicitMultiplication ==
    [][ /\ TermStep /\ NextChar(expr, pos) \notin {"*", "/", "%"} =>
           /\ CallsPowerFor("implicit") <=> StartsFactor(NextChar(expr, pos))
           /\ CallsPowerFor("implicit") => pos' = FirstNonSpace(expr, pos)
           /\ NextChar(expr, pos) \in {"+", "-"} =>
                /\ stack' = SubSeq(stack, 1, Len(stack) - 1)
                /\ stack'[Len(stack')].fn = "parseExpression"
                /\ NextChar(expr, pos') = NextChar(expr, pos)
        /\ ExprStep /\ NextChar(expr, pos) \in {"+", "-"} =>
           /\ Len(stack') = Len(stack) + 1
           /\ stack'[Len(stack)].fn = "parseExpression"
           /\ stack'[Len(stack)].pc = NextChar(expr, pos)
           /\ stack'[Len(stack')] = Frame("parseTerm")
           /\ pos' = FirstNonSpace(expr, pos) + 1
        /\ Yields(<<"2", "(", "3", "+", "4", ")">>, 14)'
        /\ Yields(<<"(", "1", "+", "2", ")", "(", "3", "+", "4", ")">>, 21)'
        /\ Yields(<<"3", " ", "4">>, 12)'
        /\ Yields(<<"2", " ", "-", "3">>, 0 - 1)'
      ]_vars

C2_Witness ==
    /\ Evaluated(<<"(", "1", "+", "2", ")", "(", "3", "+", "4", ")">>)
    /\ out[1] = Result(IntVal(21))

\* the mantissa that starts at offset p ends before offset k: the longest
\* run of digits with at most one '.'
IsMantissa(e, p, k) ==
    /\ \A j \in p..(k - 1) : isdigit(At(e, j)) \/ At(e, j) = "."
    /\ Cardinality({j \in p..(k - 1) : At(e, j) = "."}) <= 1

MantissaStop(e, p) ==
    CHOOSE k \in p..Len(e) :
       /\ IsMantissa(e, p, k)
       /\ \A k2 \in (k + 1)..Len(e) : ~IsMantissa(e, p, k2)

(* C3: when parseNumber, entered at offset start, has found no digit in    *)
(* the mantissa (the character at start is neither a digit nor '.', or the *)
(* mantissa is a lone '.', or there is only an exponent suffix), the       *)
(* evaluation fails with "Expected number" at offset start, and no value   *)
(* is returned.                                                            *)
C3_ExpectedNumber ==
    [][ /\ In("parseNumber", "check")
        /\ \A j \in Cur.start..(MantissaStop(expr, Cur.start) - 1) : ~isdigit(At(expr, j))
        => Throws("Expected number", Cur.start) ]_vars

(* C4: when the top-level parseExpression has returned, parse prints the   *)
(* value exactly when nothing but whitespace is left after the cursor;     *)
(* otherwise it fails with "Unexpected trailing input" at the offset of    *)
(* the first character left that is no whitespace.                         *)
C4_TrailingInput ==
    [][ In("parse", "v") =>
          IF \A j \in pos..(Len(expr) - 1) : isspace(At(expr, j))
          THEN /\ out' = Append(out, Result(ret))
               /\ stack' = <<>> /\ mpc' = "getline"
          ELSE Throws("Unexpected trailing input", FirstNonSpace(expr, pos))
      ]_vars

C4_Witness ==
    /\ Evaluated(<<"2", " ", ")">>)
    /\ out[1] = Error("Unexpected trailing input", 2)

\* an optional sign and at least one digit stand at offset p
ExponentAt(e, p) ==
    \/ p < Len(e) /\ isdigit(At(e, p))
    \/ p + 1 < Len(e) /\ At(e, p) \in {"+", "-"} /\ isdigit(At(e, p + 1))

\* the innermost function returns in this step
Returns == mpc' = "eval" /\ stack' = SubSeq(stack, 1, Len(stack) - 1)

(* C6: when the mantissa of parseNumber is followed by an 'e' or 'E' that  *)
(* no optional sign and digit follow, parseNumber ends with the cursor at  *)
(* the offset of that 'e' or 'E', and the value it returns is that of the  *)
(* mantissa alone; the line 1e ends with "Unexpected trailing input" at    *)
(* offset 1.                                                               *)
C6_ExponentRollback ==
    [][ /\ In("parseNumber", "check") =>
           LET m == MantissaStop(expr, Cur.start)
           IN  m < Len(expr) /\ At(expr, m) \in {"e", "E"} /\ ~ExponentAt(expr, m + 1) =>
                 /\ pos = m
                 /\ Returns => /\ pos' = m
                               /\ ret' = stod(SubSeq(expr, Cur.start + 1, m)).v
        /\ (Evaluated(<<"1", "e">>) =>
              out[1] = Error("Unexpected trailing input", 1))'
      ]_vars

C6_Witness ==
    /\ Evaluated(<<"1", "e">>)
    /\ out[1] = Error("Unexpected trailing input", 1)

\* the step looks for "**" and '^' where neither stands
NoPowerOperator ==
    /\ In("parsePower", "base")
    /\ NextChar(expr, pos) # "^"
    /\ ~(/\ NextChar(expr, pos) = "*"
         /\ FirstNonSpace(expr, pos) + 1 < Len(expr)
         /\ At(expr, FirstNonSpace(expr, pos) + 1) = "*")

(* C10: during an evaluation 0 <= pos <= Len(expr); pos decreases in no    *)
(* step but the rollback of parseNumber, which puts it back on the 'e' or  *)
(* 'E' it had passed; a failed or partial match of "**" leaves pos where   *)
(* skipSpaces put it.                                                      *)
C10_Cursor ==
    [][ mpc = "eval" =>
          /\ pos \in 0..Len(expr) /\ pos' \in 0..Len(expr)
          /\ pos' < pos => /\ In("parseNumber", "rollback")
                           /\ pos' = Cur.save
                           /\ At(expr, pos') \in {"e", "E"}
          /\ NoPowerOperator => pos' = FirstNonSpace(expr, pos)
      ]_vars

C10_Witness ==
    /\ In("parseNumber", "check")
    /\ Cur.start < pos /\ pos = Cur.save
    /\ pos < Len(expr) /\ At(expr, pos) \in {"e", "E"}

\* the right operand of the pending operator op has just been returned to
\* parseTerm
RightOperandOf(op) ==
    mpc = "eval" /\ stack # <<>> /\ Cur.fn = "parseTerm" /\ Cur.pc = op

\* a double the model follows to its value: n/d exactly, or n/d up to
\* rounding with a fraction that rounding cannot carry across an integer
Determinate(v) == v.k = "num" /\ (v.x \/ v.d # 1)

(* C5: '/' fails with "Division by zero" exactly when its right operand is *)
(* 0, and '%' fails with "Modulo by zero" exactly when its right operand   *)
(* lies strictly between -1 and 1, so that it truncates to 0 (5 % 0.5      *)
(* fails); the error is raised in the step that receives the right         *)
(* operand, it ends the evaluation and nothing else is printed for the     *)
(* line.  Stated for the right operands the model follows to their value,  *)
(* and for those of magnitude 2^63 and more.                               *)
C5_ZeroDivisor ==
    [][ /\ RightOperandOf("/") /\ ret.k \in {"num", "huge"} =>
           IF ret.k = "num" /\ ret.n = 0
           THEN Throws("Division by zero", NoPos)
           ELSE mpc' = "eval" /\ out' = out
        /\ RightOperandOf("%") /\ (Determinate(ret) \/ ret.k = "huge") =>
           IF ret.k = "num" /\ Abs(ret.n) < ret.d
           THEN Throws("Modulo by zero", NoPos)
           ELSE out' = out
        /\ (Evaluated(<<"5", " ", "%", " ", "0", ".", "5">>) =>
              out[1] = Error("Modulo by zero", NoPos))'
        /\ (Evaluated(<<"1", "/", "0">>) =>
              out[1] = Error("Division by zero", NoPos))'
      ]_vars

C5_Witness ==
    /\ Evaluated(<<"5", " ", "%", " ", "0", ".", "5">>)
    /\ out[1] = Error("Modulo by zero", NoPos)

(* C8: an evaluation ends in one outcome, a value or an error: main is     *)
(* never left in the middle of a line, and when it is back at getline it   *)
(* has printed one result or one error for every line it has read.         *)
C8_OneOutcome ==
    /\ mpc # "killed"
    /\ mpc \in {"getline", "exit"} /\ lines = <<>> /\ expr # <<>> => Len(out) = 1
    /\ mpc = "eval" => out = <<>> /\ stack # <<>>

(* C9: a byte kb_hit has read is the byte the input loop examines next: on *)
(* 'q' or 'Q' the game ends, on 'r' or 'R' the scores are 0 and gameOver   *)
(* is cleared, and any other byte but ESC is what ch holds.                *)
C9_NoByteLost ==
    [][ ppc = "kb_getch" /\ ppc' # "kb_getch" =>
          LET b == pushback[Len(pushback)]
          IN  /\ b \in {"q", "Q"} => ppc' = "exited"
              /\ b \in {"r", "R"} => scoreL' = 0 /\ scoreR' = 0 /\ ~gameOver'
              /\ b # "ESC" => ch' = b
      ]_vars

\* main has evaluated a line written without whitespace and then the same
\* tokens with whitespace between them
BothEvaluated == mpc = "exit" /\ Len(out) = 2

(* C7: whitespace before the first token, after the last token and between *)
(* two tokens changes nothing: the line with whitespace yields the value   *)
(* of the line without, or an error of the same kind.                      *)
C7_Whitespace ==
    BothEvaluated =>
       /\ out[2].kind = out[1].kind
       /\ out[2].v = out[1].v
       /\ out[2].what = out[1].what

C7_Witness ==
    /\ BothEvaluated
    /\ expr = <<"\t", " ", "2", "\t", " ", "*", "\t", " ", "1", "e", "1", "\t", " ">>
    /\ out[1] = Result(IntVal(20))
    /\ out[2] = Result(IntVal(20))

=============================================================================
